---- MODULE Spec2Model ----
(***************************************************************************)
(* Model of src/app.py: a Streamlit script that keeps a session record     *)
(* (vector-store id, set of indexed filenames, chat transcript, model      *)
(* choice), uploads and attaches files to a hosted vector store, and calls *)
(* a hosted retrieval-augmented generation endpoint.                       *)
(*                                                                         *)
(* The script is re-executed top to bottom on every user interaction.  A   *)
(* run is modelled section by section: pc is the section the run is about  *)
(* to execute; "idle" means no run is in progress.  An exception raised by *)
(* an external call is not caught by the script, so it ends the run: the   *)
(* session state keeps what was assigned before it.                        *)
(*                                                                         *)
(* Strings that are only stored and compared for equality are TLA+         *)
(* strings.  Filenames are sequences of character codes, so that Python's  *)
(* lexicographic string order (used by sorted) can be computed.            *)
(***************************************************************************)
EXTENDS Integers, Sequences, FiniteSets

(***************************************************************************)
(* Bounds of the model.                                                    *)
(***************************************************************************)
\* longest list of files the upload widget offers in one run
MaxFiles == 2
\* most successful chat turns in a session
MaxTurns == 2
\* most objects uploaded to the store and never attached (failed attaches)
MaxOrphans == 1
\* most output blocks in a response of the endpoint
MaxBlocks == 2
\* most results in one tool_result item of a response
MaxResults == 1

(***************************************************************************)
(* Values.                                                                 *)
(***************************************************************************)
\* the filenames "ab" and "b" as character codes: "ab" < "b" in Python
NameAB == <<1, 2>>
NameB == <<2>>
FileNames == {NameAB, NameB}

Models == {"gpt-5-mini", "gpt-5-pro"}
DefaultModel == "gpt-5-mini"

Questions == {"What is the roof condition?"}

Placeholder == "_No text output._"
ChatInstructions == "You are a real estate due diligence analyst."
InvestorInstructions == "You are a real estate investment analyst."
InvestorPrompt == "Create an investor-style memo for this property"

\* a Python value that is None, or an attribute that is absent, or a list
PyNone == [k |-> "none", v |-> <<>>]
PyAbsent == [k |-> "absent", v |-> <<>>]
PyList(s) == [k |-> "list", v |-> s]
\* a Python str or None
PyStr(s) == [k |-> "str", s |-> s]
PyNoStr == [k |-> "none", s |-> ""]

\* all sequences over S of length at most n
SeqsUpTo(S, n) == UNION {[1..m -> S] : m \in 0..n}

(***************************************************************************)
(* rag_call: the answer text and the citation list of a response.          *)
(***************************************************************************)
\* x or "_No text output._": None and "" are falsy
\* variant: the endpoint's text as it is
AnswerTextNoDefault(output_text) == output_text.s
AnswerText(output_text) ==
    IF output_text.k = "str" /\ output_text.s # "" THEN output_text.s ELSE Placeholder

\* x or []: None and an absent attribute defaulted to [] give the empty list
OrEmpty(x) == IF x.k = "list" THEN x.v ELSE <<>>

\* for r in c.results or []: if hasattr(r, "file_name"): used_files.append(...)
RECURSIVE ScanResults(_, _)
ScanResults(rs, acc) ==
    IF rs = <<>> THEN acc
    ELSE ScanResults(Tail(rs),
                     IF Head(rs).has_name THEN Append(acc, Head(rs).file_name) ELSE acc)

\* one content item c; c.results raises AttributeError when the attribute is absent
ScanItem(c, acc) ==
    IF c.type = "tool_result" /\ c.tool_name = "file_search"
    THEN IF c.results.k = "absent"
         THEN [files |-> acc, raised |-> TRUE]
         ELSE [files |-> ScanResults(OrEmpty(c.results), acc), raised |-> FALSE]
    ELSE [files |-> acc, raised |-> FALSE]

\* for c in getattr(block, "content", []) or []
RECURSIVE ScanContent(_, _)
ScanContent(cs, acc) ==
    IF cs = <<>> THEN [files |-> acc, raised |-> FALSE]
    ELSE LET r == ScanItem(Head(cs), acc)
         IN  IF r.raised THEN r ELSE ScanContent(Tail(cs), r.files)

\* for block in response.output or []
RECURSIVE ScanOutput(_, _)
ScanOutput(blocks, acc) ==
    IF blocks = <<>> THEN [files |-> acc, raised |-> FALSE]
    ELSE LET r == ScanContent(OrEmpty(Head(blocks).content), acc)
         IN  IF r.raised THEN r ELSE ScanOutput(Tail(blocks), r.files)

\* used_files after the try/except: the except clause passes, and the list keeps
\* what was appended before the exception
\* variant: the list is emptied when the traversal raises
CollectFilesResetOnError(response) ==
    LET r == ScanOutput(OrEmpty(response.output), <<>>)
    IN  IF r.raised THEN <<>> ELSE r.files
CollectFiles(response) == ScanOutput(OrEmpty(response.output), <<>>).files

\* whether the traversal raised (and the exception was swallowed)
TraversalRaised(response) == ScanOutput(OrEmpty(response.output), <<>>).raised

\* Python's order on str
RECURSIVE LexLess(_, _)
LexLess(a, b) ==
    IF a = <<>> THEN b # <<>>
    ELSE IF b = <<>> THEN FALSE
    ELSE IF Head(a) # Head(b) THEN Head(a) < Head(b)
    ELSE LexLess(Tail(a), Tail(b))

SeqToSet(s) == {s[i] : i \in 1..Len(s)}

\* sorted(S) for a set of str
RECURSIVE SortedOfSet(_)
SortedOfSet(S) ==
    IF S = {} THEN <<>>
    ELSE LET m == CHOOSE x \in S : \A y \in S \ {x} : LexLess(x, y)
         IN  <<m>> \o SortedOfSet(S \ {m})

\* sorted(set(used_files))
\* variant: the list as collected, neither deduplicated nor sorted
SortedSetAsCollected(files) == files
SortedSet(files) == SortedOfSet(SeqToSet(files))

\* what rag_call returns for a response of the endpoint
rag_call(response) ==
    [answer_text |-> AnswerText(response.output_text),
     used_files |-> SortedSet(CollectFiles(response))]

(***************************************************************************)
(* The responses of the endpoint the model draws from.                     *)
(***************************************************************************)
Results ==
    {[has_name |-> TRUE, file_name |-> n] : n \in FileNames}
        \cup {[has_name |-> FALSE, file_name |-> <<>>]}

ResultLists ==
    {PyNone, PyAbsent} \cup {PyList(s) : s \in SeqsUpTo(Results, MaxResults)}

FileSearchItems ==
    {[type |-> "tool_result", tool_name |-> "file_search", results |-> rl] :
        rl \in ResultLists}

\* a text item, and the result of another tool (it names a file too)
TextItem == [type |-> "output_text", tool_name |-> "", results |-> PyAbsent]
WebSearchItem ==
    [type |-> "tool_result", tool_name |-> "web_search",
     results |-> PyList(<<[has_name |-> TRUE, file_name |-> NameB]>>)]

Items == FileSearchItems \cup {TextItem, WebSearchItem}

CitesB ==
    [type |-> "tool_result", tool_name |-> "file_search",
     results |-> PyList(<<[has_name |-> TRUE, file_name |-> NameB]>>)]
CitesAB ==
    [type |-> "tool_result", tool_name |-> "file_search",
     results |-> PyList(<<[has_name |-> TRUE, file_name |-> NameAB]>>)]
NoResultsAttr ==
    [type |-> "tool_result", tool_name |-> "file_search", results |-> PyAbsent]
PairItems == {CitesB, CitesAB, NoResultsAttr}

\* a block's content: None, absent, empty, one item, or a pair of PairItems
Contents ==
    {PyNone, PyAbsent, PyList(<<>>)}
        \cup {PyList(<<c>>) : c \in Items}
        \cup {PyList(<<c, d>>) : c \in PairItems, d \in PairItems}

Blocks == {[content |-> c] : c \in Contents}

Outputs == {PyNone} \cup {PyList(s) : s \in SeqsUpTo(Blocks, MaxBlocks)}

OutputTexts == {PyNoStr, PyStr(""), PyStr("Roof is in fair condition.")}

Responses == [output_text : OutputTexts, output : Outputs]

\* the responses a session's calls receive
SessionResponses ==
    [output_text : OutputTexts,
     output : {PyNone, PyList(<<[content |-> PyList(<<CitesB>>)]>>)}]

NoResponse == [output_text |-> PyNoStr, output |-> PyAbsent]
NoReturn == [answer_text |-> "", used_files |-> <<>>, none |-> TRUE]
Returned(r) ==
    [answer_text |-> r.answer_text, used_files |-> r.used_files, none |-> FALSE]

(***************************************************************************)
(* State.                                                                  *)
(***************************************************************************)
VARIABLES
    vs_id,               \* st.session_state.vs_id, "absent" before it is set
    indexed_filenames,   \* st.session_state.indexed_filenames
    chat_history,        \* st.session_state.chat_history
    model_choice,        \* st.session_state.model_choice
    uploaded_files,      \* the file uploader's value: the names, in order
    selected_model,      \* the selectbox's value
    follow_up,           \* the chat input's value in this run
    button,              \* the summary button's value in this run
    pc,                  \* the section the run executes next
    newly_indexed_count, \* the local of the upload section
    upload_error,        \* the file and the call that raised in the upload section
    store_files,         \* the external object store: objects per filename
    vs_attached,         \* the external vector store: attached objects per filename
    request,             \* the request last submitted to the endpoint in this run
    n_requests,          \* requests submitted to the endpoint in this run
    response,            \* the response the endpoint gave to it
    returned,            \* what rag_call returned for it
    offered,             \* history: the filenames the upload passes were given
    upload_failed,       \* history: some upload or attach call has failed
    n_turns              \* history: chat turns that succeeded

session == <<vs_id, indexed_filenames, chat_history, model_choice>>
widgets == <<uploaded_files, selected_model, follow_up, button>>
external == <<store_files, vs_attached>>
locals == <<newly_indexed_count, upload_error, request, n_requests, response, returned>>
history == <<offered, upload_failed, n_turns>>
vars == <<session, widgets, pc, external, locals, history>>

NoRequest ==
    [model |-> "", instructions |-> "", vector_store_id |-> "absent", input |-> <<>>]
NoError == [name |-> <<>>, step |-> "none"]

\* The session before the first run.  Lines 26-35 give the other three keys their
\* first values in the run that creates the vector store; no code reads them
\* before that, so they hold those values from the start.
Init ==
    /\ vs_id = "absent"
    /\ indexed_filenames = {}
    /\ chat_history = <<>>
    /\ model_choice = DefaultModel
    /\ uploaded_files = <<>>
    /\ selected_model = DefaultModel
    /\ follow_up = PyNoStr
    /\ button = FALSE
    /\ pc = "idle"
    /\ newly_indexed_count = 0
    /\ upload_error = NoError
    /\ store_files = [n \in FileNames |-> 0]
    /\ vs_attached = [n \in FileNames |-> 0]
    /\ request = NoRequest
    /\ n_requests = 0
    /\ response = NoResponse
    /\ returned = NoReturn
    /\ offered = {}
    /\ upload_failed = FALSE
    /\ n_turns = 0

(***************************************************************************)
(* The start of a run: the session-state section.                          *)
(***************************************************************************)
\* A run starts with fresh locals and creates the vector store when the session
\* has none; created_ok = FALSE is client.vector_stores.create raising, which
\* ends the run.
BeginRun(created_ok) ==
    /\ vs_id # "absent" => created_ok
    /\ vs_id' = IF vs_id = "absent" /\ created_ok THEN "vs_1" ELSE vs_id
    /\ pc' = IF created_ok THEN "upload" ELSE "idle"
    /\ newly_indexed_count' = 0
    /\ upload_error' = NoError
    /\ request' = NoRequest
    /\ n_requests' = 0
    /\ response' = NoResponse
    /\ returned' = NoReturn
    /\ UNCHANGED <<indexed_filenames, chat_history, model_choice, external, history>>

\* the user changes the uploaded files
UploadFiles ==
    /\ pc = "idle"
    /\ \E fs \in SeqsUpTo(FileNames, MaxFiles) :
          /\ fs # uploaded_files
          /\ uploaded_files' = fs
    /\ follow_up' = PyNoStr
    /\ button' = FALSE
    /\ UNCHANGED selected_model
    /\ \E created_ok \in BOOLEAN : BeginRun(created_ok)

\* the user picks the other model
SelectModel ==
    /\ pc = "idle"
    /\ \E m \in Models :
          /\ m # selected_model
          /\ selected_model' = m
    /\ follow_up' = PyNoStr
    /\ button' = FALSE
    /\ UNCHANGED uploaded_files
    /\ \E created_ok \in BOOLEAN : BeginRun(created_ok)

\* the user submits a question; the action does not assume that the last run drew
\* the chat input: the test of line 152 is left to the chat section
SubmitChat ==
    /\ pc = "idle"
    /\ \E q \in Questions : follow_up' = PyStr(q)
    /\ button' = FALSE
    /\ UNCHANGED <<uploaded_files, selected_model>>
    /\ \E created_ok \in BOOLEAN : BeginRun(created_ok)

\* the user clicks "Generate Investor Summary"; as for the chat input, the test of
\* line 193 is left to the summary section
ClickSummary ==
    /\ pc = "idle"
    /\ follow_up' = PyNoStr
    /\ button' = TRUE
    /\ UNCHANGED <<uploaded_files, selected_model>>
    /\ \E created_ok \in BOOLEAN : BeginRun(created_ok)

\* st.rerun() after a chat turn: the script starts again, no widget triggered
Rerun ==
    /\ pc = "rerun"
    /\ follow_up' = PyNoStr
    /\ button' = FALSE
    /\ UNCHANGED <<uploaded_files, selected_model>>
    /\ BeginRun(TRUE)

(***************************************************************************)
(* Section 1: upload and index the files of the uploader.                  *)
(***************************************************************************)
RECURSIVE SumOver(_, _)
SumOver(f, S) ==
    IF S = {} THEN 0
    ELSE LET x == CHOOSE y \in S : TRUE IN f[x] + SumOver(f, S \ {x})

\* objects in the store that are attached to no vector store
Orphans == SumOver(store_files, FileNames) - SumOver(vs_attached, FileNames)

\* The body of the loop for one file.  st is the state the loop works on;
\* outcome tells which external call raises, if the file is not skipped.
\* variant: the name is added before the external calls
IndexFileAddsFirst(name, st, outcome) ==
    IF name \in st.indexed THEN st
    ELSE IF outcome = "upload_raises"
         THEN [st EXCEPT !.indexed = @ \cup {name},
                         !.error = [name |-> name, step |-> "upload"]]
    ELSE IF outcome = "attach_raises"
         THEN [st EXCEPT !.indexed = @ \cup {name},
                         !.store[name] = @ + 1,
                         !.error = [name |-> name, step |-> "attach"]]
    ELSE [st EXCEPT !.store[name] = @ + 1,
                    !.attached[name] = @ + 1,
                    !.indexed = @ \cup {name},
                    !.count = @ + 1]
\* variant: no test of indexed_filenames
IndexFileNoSkip(name, st, outcome) ==
    IF outcome = "upload_raises"
    THEN [st EXCEPT !.error = [name |-> name, step |-> "upload"]]
    ELSE IF outcome = "attach_raises"
         THEN [st EXCEPT !.store[name] = @ + 1,
                         !.error = [name |-> name, step |-> "attach"]]
    ELSE [st EXCEPT !.store[name] = @ + 1,
                    !.attached[name] = @ + 1,
                    !.indexed = @ \cup {name},
                    !.count = @ + 1]
IndexFile(name, st, outcome) ==
    IF name \in st.indexed THEN st
    ELSE IF outcome = "upload_raises"
         THEN [st EXCEPT !.error = [name |-> name, step |-> "upload"]]
    ELSE IF outcome = "attach_raises"
         THEN [st EXCEPT !.store[name] = @ + 1,
                         !.error = [name |-> name, step |-> "attach"]]
    ELSE [st EXCEPT !.store[name] = @ + 1,
                    !.attached[name] = @ + 1,
                    !.indexed = @ \cup {name},
                    !.count = @ + 1]

\* for f in uploaded_files, from the i-th on; the call for the fail_at-th file
\* raises with fail_kind, and an exception leaves the loop
RECURSIVE UploadLoop(_, _, _, _, _)
UploadLoop(files, i, st, fail_at, fail_kind) ==
    IF i > Len(files) \/ st.error # NoError THEN st
    ELSE UploadLoop(files, i + 1,
                    IndexFile(files[i], st, IF i = fail_at THEN fail_kind ELSE "ok"),
                    fail_at, fail_kind)

UploadSection ==
    /\ pc = "upload"
    /\ \E fail_at \in 0..Len(uploaded_files), fail_kind \in {"upload_raises", "attach_raises"} :
          LET st0 == [indexed |-> indexed_filenames, store |-> store_files,
                      attached |-> vs_attached, count |-> 0, error |-> NoError]
              st == IF uploaded_files # <<>>
                    THEN UploadLoop(uploaded_files, 1, st0, fail_at, fail_kind)
                    ELSE st0
          IN  /\ fail_at = 0 => fail_kind = "upload_raises"
              /\ fail_at > 0 => st.error # NoError
              /\ st.error.step = "attach" => Orphans < MaxOrphans
              /\ indexed_filenames' = st.indexed
              /\ store_files' = st.store
              /\ vs_attached' = st.attached
              /\ newly_indexed_count' = st.count
              /\ upload_error' = st.error
              /\ pc' = IF st.error # NoError THEN "idle" ELSE "select"
              /\ offered' = offered \cup SeqToSet(uploaded_files)
              /\ upload_failed' = (upload_failed \/ st.error # NoError)
    /\ UNCHANGED <<vs_id, chat_history, model_choice, widgets, request, n_requests,
                   response, returned, n_turns>>

(***************************************************************************)
(* Section 2: the model selector.                                          *)
(***************************************************************************)
ModelSection ==
    /\ pc = "select"
    /\ model_choice' = selected_model
    /\ pc' = "chat"
    /\ UNCHANGED <<vs_id, indexed_filenames, chat_history, widgets, external, locals,
                   history>>

(***************************************************************************)
(* ask_model and the requests.                                             *)
(***************************************************************************)
Truthy(x) == x.k = "str" /\ x.s # ""

UserMsg(text) == [role |-> "user", content |-> text]
AssistantMsg(text) == [role |-> "assistant", content |-> text]

CopyMessages(chat) ==
    [i \in 1..Len(chat) |-> [role |-> chat[i].role, content |-> chat[i].content]]

\* messages of ask_model: the transcript, then the question
\* variant: the question before the transcript
BuildMessagesNewFirst(chat, question) == <<UserMsg(question)>> \o CopyMessages(chat)
BuildMessages(chat, question) == Append(CopyMessages(chat), UserMsg(question))

\* messages of the investor summary: the transcript, then the fixed prompt
SummaryMessages(chat) == Append(CopyMessages(chat), UserMsg(InvestorPrompt))

\* the two appends of ask_model
\* variant: only the answer is appended
UpdateHistoryAnswerOnly(chat, question, answer_text, update_history) ==
    IF update_history THEN Append(chat, AssistantMsg(answer_text)) ELSE chat
UpdateHistory(chat, question, answer_text, update_history) ==
    IF update_history
    THEN Append(Append(chat, UserMsg(question)), AssistantMsg(answer_text))
    ELSE chat

\* The arguments of client.responses.create
Request(messages, instructions) ==
    [model |-> model_choice, instructions |-> instructions,
     vector_store_id |-> vs_id, input |-> messages]

\* A call of the endpoint: it raises, or it gives a response
Calls(responses) ==
    {[raised |-> TRUE, response |-> NoResponse]}
        \cup {[raised |-> FALSE, response |-> r] : r \in responses}

\* ask_model(question, instructions, update_history=True) with the outcome of its
\* call: the messages it submits, what it returns, and the transcript after it.
\* An exception of rag_call leaves before the appends.
\* variant: the question is appended before the call
ask_modelAppendsFirst(chat, question, call) ==
    [messages |-> BuildMessages(chat, question),
     returned |-> IF call.raised THEN NoReturn ELSE Returned(rag_call(call.response)),
     chat_history |->
        IF call.raised THEN Append(chat, UserMsg(question))
        ELSE UpdateHistory(chat, question, rag_call(call.response).answer_text, TRUE)]
ask_model(chat, question, call) ==
    [messages |-> BuildMessages(chat, question),
     returned |-> IF call.raised THEN NoReturn ELSE Returned(rag_call(call.response)),
     chat_history |->
        IF call.raised THEN chat
        ELSE UpdateHistory(chat, question, rag_call(call.response).answer_text, TRUE)]

(***************************************************************************)
(* Section 3: chat.                                                        *)
(***************************************************************************)
\* the else branch of "if not st.session_state.indexed_filenames"
\* variant: the chat is offered with nothing indexed
ChatEnabledAlways(indexed) == TRUE
ChatEnabled(indexed) == indexed # {}

ChatSkip ==
    /\ pc = "chat"
    /\ ~(ChatEnabled(indexed_filenames) /\ Truthy(follow_up))
    /\ pc' = "summary"
    /\ UNCHANGED <<session, widgets, external, locals, history>>

ChatTurn(call) ==
    LET a == ask_model(chat_history, follow_up.s, call)
    IN  /\ pc = "chat"
        /\ ChatEnabled(indexed_filenames) /\ Truthy(follow_up)
        /\ request' = Request(a.messages, ChatInstructions)
        /\ n_requests' = n_requests + 1
        /\ response' = call.response
        /\ returned' = a.returned
        /\ chat_history' = a.chat_history
        /\ pc' = IF call.raised THEN "idle" ELSE "rerun"
        /\ n_turns' = IF call.raised THEN n_turns ELSE n_turns + 1
        /\ UNCHANGED <<vs_id, indexed_filenames, model_choice, widgets, external,
                       newly_indexed_count, upload_error, offered, upload_failed>>

ChatTurnOk ==
    /\ n_turns < MaxTurns
    /\ \E r \in SessionResponses : ChatTurn([raised |-> FALSE, response |-> r])

ChatTurnFail ==
    /\ pc = "chat"
    /\ ChatTurn([raised |-> TRUE, response |-> NoResponse])

(***************************************************************************)
(* Section 4: investor summary.                                            *)
(***************************************************************************)
SummaryEnabled(indexed) == indexed # {}

\* the transcript after the summary handler: it assigns nothing to it
\* variant: the summary is appended as a turn
SummaryHistoryAppends(chat, answer_text) ==
    UpdateHistory(chat, InvestorPrompt, answer_text, TRUE)
SummaryHistory(chat, answer_text) == chat

SummarySkip ==
    /\ pc = "summary"
    /\ ~(SummaryEnabled(indexed_filenames) /\ button)
    /\ pc' = "idle"
    /\ UNCHANGED <<session, widgets, external, locals, history>>

Summary(call) ==
    /\ pc = "summary"
    /\ SummaryEnabled(indexed_filenames) /\ button
    /\ request' = Request(SummaryMessages(chat_history), InvestorInstructions)
    /\ n_requests' = n_requests + 1
    /\ response' = call.response
    /\ returned' = IF call.raised THEN NoReturn ELSE Returned(rag_call(call.response))
    /\ chat_history' =
          IF call.raised THEN chat_history
          ELSE SummaryHistory(chat_history, rag_call(call.response).answer_text)
    /\ pc' = "idle"
    /\ UNCHANGED <<vs_id, indexed_filenames, model_choice, widgets, external,
                   newly_indexed_count, upload_error, history>>

SummaryOk ==
    /\ pc = "summary"
    /\ \E r \in SessionResponses : Summary([raised |-> FALSE, response |-> r])

SummaryFail ==
    /\ pc = "summary"
    /\ Summary([raised |-> TRUE, response |-> NoResponse])

(***************************************************************************)
(* The session.                                                            *)
(***************************************************************************)
Next ==
    \/ UploadFiles
    \/ SelectModel
    \/ SubmitChat
    \/ ClickSummary
    \/ Rerun
    \/ UploadSection
    \/ ModelSection
    \/ ChatSkip
    \/ ChatTurnOk
    \/ ChatTurnFail
    \/ SummarySkip
    \/ SummaryOk
    \/ SummaryFail

Spec == Init /\ [][Next]_vars

(***************************************************************************)
(* rag_call alone, over the responses of the endpoint.                     *)
(***************************************************************************)
InitRag ==
    /\ vs_id = "vs_1"
    /\ indexed_filenames = {NameB}
    /\ chat_history = <<>>
    /\ model_choice = DefaultModel
    /\ uploaded_files = <<NameB>>
    /\ selected_model = DefaultModel
    /\ follow_up = PyNoStr
    /\ button = TRUE
    /\ pc = "rag_call"
    /\ newly_indexed_count = 0
    /\ upload_error = NoError
    /\ store_files = [n \in FileNames |-> IF n = NameB THEN 1 ELSE 0]
    /\ vs_attached = [n \in FileNames |-> IF n = NameB THEN 1 ELSE 0]
    /\ request = Request(SummaryMessages(<<>>), InvestorInstructions)
    /\ n_requests = 1
    /\ response \in Responses
    /\ returned = NoReturn
    /\ offered = {NameB}
    /\ upload_failed = FALSE
    /\ n_turns = 0

\* lines 56-69 of rag_call on the response
RagCallReturns ==
    /\ pc = "rag_call"
    /\ returned' = Returned(rag_call(response))
    /\ pc' = "idle"
    /\ UNCHANGED <<session, widgets, external, newly_indexed_count, upload_error,
                   request, n_requests, response, history>>

NextRag == RagCallReturns

SpecRag == InitRag /\ [][NextRag]_vars

(***************************************************************************)
(* Properties.                                                             *)
(***************************************************************************)
\* an upload pass that ran to its end
PassCompleted == pc = "upload" /\ pc' = "select"

\* a step that submits a request to the endpoint
Submits == n_requests' = n_requests + 1

\* C1: with every upload and attach call succeeding, indexed_filenames equals the
\* set of the filenames the upload passes were given; a pass uploads and attaches
\* nothing for a name already indexed, counts each new name once (a name offered
\* twice counts once), changes nothing of the session when every name is already
\* indexed, and never removes a name.
C1_IdempotentAdd ==
    /\ [](~upload_failed => indexed_filenames = offered)
    /\ [][pc = "upload" =>
            /\ indexed_filenames \subseteq indexed_filenames'
            /\ newly_indexed_count' = Cardinality(indexed_filenames' \ indexed_filenames)
            /\ \A n \in indexed_filenames :
                  /\ store_files'[n] = store_files[n]
                  /\ vs_attached'[n] = vs_attached[n]
            /\ SeqToSet(uploaded_files) \subseteq indexed_filenames =>
                  /\ UNCHANGED <<session, external>>
                  /\ newly_indexed_count' = 0]_vars
    /\ [][PassCompleted =>
            indexed_filenames' = indexed_filenames \cup SeqToSet(uploaded_files)]_vars
    /\ [][indexed_filenames \subseteq indexed_filenames']_vars

\* the same filename offered twice in one pass: one name indexed, counted once
C1_Witness ==
    /\ pc = "select"
    /\ uploaded_files = <<NameB, NameB>>
    /\ indexed_filenames = {NameB}
    /\ store_files[NameB] = 1
    /\ newly_indexed_count = 1
    /\ ~upload_failed

\* C2: the transcript holds two entries per successful chat turn, alternating
\* user and assistant from a user entry on, and every step keeps every entry it
\* had, at its position.
C2_AppendOnly ==
    /\ [](/\ Len(chat_history) = 2 * n_turns
          /\ \A i \in 1..Len(chat_history) :
                chat_history[i].role = IF i % 2 = 1 THEN "user" ELSE "assistant")
    /\ [][/\ Len(chat_history') >= Len(chat_history)
          /\ \A i \in 1..Len(chat_history) : chat_history'[i] = chat_history[i]]_vars

\* two turns were appended, and a summary was generated after them
C2_Witness ==
    /\ n_turns = 2
    /\ Len(chat_history) = 4
    /\ request.instructions = InvestorInstructions
    /\ ~returned.none

\* C3: the messages of a submitted request are the transcript of that moment, in
\* order, followed by the new user message: 2N+1 messages after N turns.
C3_RequestMessages ==
    [][Submits =>
         LET m == request'.input
             N == n_turns
         IN  /\ Len(chat_history) = 2 * N
             /\ Len(m) = 2 * N + 1
             /\ \A i \in 1..(2 * N) :
                   /\ m[i].role = chat_history[i].role
                   /\ m[i].content = chat_history[i].content
             /\ m[2 * N + 1].role = "user"
             /\ m[2 * N + 1].content =
                   IF pc = "chat" THEN follow_up.s ELSE InvestorPrompt]_vars

\* a chat turn submitted three messages on a transcript of two
C3_Witness ==
    /\ request.instructions = ChatInstructions
    /\ Len(request.input) = 3
    /\ request.input[2].role = "assistant"

\* the items of a response in the order the traversal meets them
RECURSIVE FlatItems(_)
FlatItems(blocks) ==
    IF blocks = <<>> THEN <<>>
    ELSE (IF Head(blocks).content.k = "list" THEN Head(blocks).content.v ELSE <<>>)
            \o FlatItems(Tail(blocks))

ResponseItems(resp) == IF resp.output.k = "list" THEN FlatItems(resp.output.v) ELSE <<>>

IsFileSearchResult(c) == c.type = "tool_result" /\ c.tool_name = "file_search"

\* reading the results of this item raises
ItemRaises(c) == IsFileSearchResult(c) /\ c.results.k = "absent"

\* the filenames of the results of a file_search tool_result item
NamesOf(c) ==
    IF IsFileSearchResult(c) /\ c.results.k = "list"
    THEN {c.results.v[j].file_name :
             j \in {k \in 1..Len(c.results.v) : c.results.v[k].has_name}}
    ELSE {}

\* the index of the first item that raises, or one past the last item
FirstError(items) ==
    IF \E i \in 1..Len(items) : ItemRaises(items[i])
    THEN CHOOSE i \in 1..Len(items) :
            /\ ItemRaises(items[i])
            /\ \A j \in 1..(i - 1) : ~ItemRaises(items[j])
    ELSE Len(items) + 1

HasError(resp) == FirstError(ResponseItems(resp)) <= Len(ResponseItems(resp))

NamesBeforeError(resp) ==
    LET items == ResponseItems(resp)
    IN  UNION {NamesOf(items[i]) : i \in 1..(FirstError(items) - 1)}

AllNames(resp) ==
    LET items == ResponseItems(resp)
    IN  UNION {NamesOf(items[i]) : i \in 1..Len(items)}

\* a before b in the lexicographic order of strings
LexBefore(a, b) ==
    \E k \in 0..Len(a) :
        /\ k <= Len(b)
        /\ \A i \in 1..k : a[i] = b[i]
        /\ \/ k = Len(a) /\ k < Len(b)
           \/ k < Len(a) /\ k < Len(b) /\ a[k + 1] < b[k + 1]

Ascending(s) == \A i \in 1..(Len(s) - 1) : LexBefore(s[i], s[i + 1])

EndpointText(resp) ==
    IF resp.output_text = PyNoStr \/ resp.output_text = PyStr("")
    THEN Placeholder
    ELSE resp.output_text.s

\* rag_call has returned for the response
RagReturned == pc = "idle" /\ ~returned.none

\* C4, as claimed: when the traversal of the response raises, rag_call returns its
\* answer text and an empty citation list.
C4_EmptyOnError ==
    RagReturned /\ HasError(response) =>
        /\ returned.answer_text = EndpointText(response)
        /\ returned.used_files = <<>>

\* C4, amended: when the traversal of the response raises, rag_call returns its
\* answer text, and its citation list holds, in ascending order and once each, the
\* filenames collected before the error.
C4_KeepsCollected ==
    /\ pc = "idle" => ~returned.none
    /\ RagReturned /\ HasError(response) =>
          /\ returned.answer_text = EndpointText(response)
          /\ SeqToSet(returned.used_files) = NamesBeforeError(response)
          /\ Ascending(returned.used_files)

\* an error after two filenames were collected, the later one first in order
C4_Witness ==
    /\ RagReturned
    /\ HasError(response)
    /\ returned.used_files = <<NameAB, NameB>>
    /\ Len(response.output.v) = 2
    /\ ItemRaises(response.output.v[2].content.v[1])

\* C5: the citation list has no duplicate and is in ascending lexicographic order;
\* for a response whose traversal raises nothing it holds exactly the filenames
\* of the results of the file_search tool_result items, so it is empty when there
\* is none; and rag_call returns for every response.
C5_DedupSorted ==
    /\ pc = "idle" => ~returned.none
    /\ RagReturned =>
          /\ Ascending(returned.used_files)
          /\ Cardinality(SeqToSet(returned.used_files)) = Len(returned.used_files)
          /\ ~HasError(response) =>
                SeqToSet(returned.used_files) = AllNames(response)
          /\ (\A i \in 1..Len(ResponseItems(response)) :
                 ~IsFileSearchResult(ResponseItems(response)[i]))
                => returned.used_files = <<>>

\* "b" cited by two blocks and "ab" by a later result: two names, in order
C5_Witness ==
    /\ RagReturned
    /\ ~HasError(response)
    /\ Len(response.output.v) = 2
    /\ response.output.v[1].content = PyList(<<CitesB, CitesAB>>)
    /\ response.output.v[2].content = PyList(<<CitesB>>)
    /\ returned.used_files = <<NameAB, NameB>>

\* C6: when an upload or attach call raises, the pass ends, the file's name is not
\* indexed and not counted, the names indexed before stay; after a failed attach
\* the object is in the store, attached to nothing.
C6_FailedFileNotIndexed ==
    [][pc = "upload" /\ upload_error' # NoError =>
         LET f == upload_error'.name
         IN  /\ pc' = "idle"
             /\ f \notin indexed_filenames'
             /\ indexed_filenames \subseteq indexed_filenames'
             /\ newly_indexed_count' = Cardinality(indexed_filenames' \ indexed_filenames)
             /\ vs_attached'[f] = 0
             /\ upload_error'.step = "upload" => store_files'[f] = store_files[f]
             /\ upload_error'.step = "attach" =>
                   /\ store_files'[f] = store_files[f] + 1
                   /\ store_files'[f] > vs_attached'[f]]_vars

\* "ab" was indexed, then the attach of "b" failed in the same pass
C6_Witness ==
    /\ pc = "idle"
    /\ upload_error = [name |-> NameB, step |-> "attach"]
    /\ uploaded_files = <<NameAB, NameB>>
    /\ indexed_filenames = {NameAB}
    /\ newly_indexed_count = 1
    /\ store_files[NameB] = 1
    /\ vs_attached[NameB] = 0

\* a chat turn whose call raised
ChatCallFailed == pc = "chat" /\ pc' = "idle"

\* C7: a chat turn whose call fails leaves the transcript (of even length), the
\* indexed filenames and the vector-store id as they were, and has submitted one
\* request.
C7_FailedTurn ==
    [][ChatCallFailed =>
         /\ chat_history' = chat_history
         /\ Len(chat_history') % 2 = 0
         /\ indexed_filenames' = indexed_filenames
         /\ vs_id' = vs_id
         /\ model_choice' = model_choice
         /\ n_requests' = 1
         /\ returned'.none]_vars

\* a chat turn failed after an earlier one had succeeded
C7_Witness ==
    /\ pc = "idle"
    /\ request.instructions = ChatInstructions
    /\ n_requests = 1
    /\ returned.none
    /\ Len(chat_history) = 2

\* C8: summary generation submits the transcript as the context of its request
\* and leaves the transcript as it was, whether its call succeeds or fails; only
\* a chat turn that succeeded changes the transcript.
C8_SummaryFrame ==
    /\ [][pc = "summary" => chat_history' = chat_history]_vars
    /\ [][pc = "summary" /\ Submits =>
            SubSeq(request'.input, 1, Len(chat_history)) = chat_history]_vars
    /\ [][chat_history' # chat_history =>
            pc = "chat" /\ pc' = "rerun" /\ ~returned'.none]_vars

\* a summary was generated on a transcript of one turn
C8_Witness ==
    /\ pc = "idle"
    /\ request.instructions = InvestorInstructions
    /\ ~returned.none
    /\ Len(request.input) = 3
    /\ Len(chat_history) = 2

\* C9: the answer text rag_call returns is the placeholder when the endpoint gave
\* no text or empty text and the endpoint's text otherwise, never empty; no
\* assistant entry of the transcript is empty.
C9_AnswerNeverEmpty ==
    /\ ~returned.none =>
          /\ returned.answer_text # ""
          /\ returned.answer_text = EndpointText(response)
    /\ \A i \in 1..Len(chat_history) :
          chat_history[i].role = "assistant" => chat_history[i].content # ""

\* the endpoint gave empty text in a chat turn: the placeholder was appended
C9_Witness ==
    /\ pc = "rerun"
    /\ response.output_text = PyStr("")
    /\ returned.answer_text = Placeholder
    /\ chat_history[Len(chat_history)] = AssistantMsg(Placeholder)

\* C10: a request is submitted only with the vector store created and a file
\* indexed; the transcript is empty while no file is indexed; once a file is
\* indexed, one stays indexed.
C10_ReadyBeforeRequest ==
    /\ [](/\ request # NoRequest =>
                /\ vs_id # "absent"
                /\ request.vector_store_id = vs_id
                /\ indexed_filenames # {}
          /\ indexed_filenames = {} => chat_history = <<>>)
    /\ [][Submits => vs_id # "absent" /\ indexed_filenames # {}]_vars
    /\ [][indexed_filenames # {} => indexed_filenames' # {}]_vars

\* a summary request went to the created store with "b" indexed
C10_Witness ==
    /\ pc = "idle"
    /\ request.instructions = InvestorInstructions
    /\ request.vector_store_id = "vs_1"
    /\ indexed_filenames = {NameB}
    /\ chat_history = <<>>

====
